---- MODULE Spec2Model ----
(***************************************************************************)
(* krun-relay (src/lib/sandbox/linux/krun-relay.c): the PTY relay that     *)
(* runs as PID 1 of the microVM, and the ioctl wrapper of libfakeuid       *)
(* (src/lib/sandbox/linux/fakeuid.c).                                      *)
(*                                                                         *)
(* The relay's main() is modelled one system call (or one straight-line    *)
(* block between two blocking points) per action; sigchld_handler is one   *)
(* atomic action that can run between any two of them.  The environment    *)
(* (the child, reparented orphans, the user at the console, the kernel's   *)
(* PTY queues) is modelled by its own actions.                             *)
(***************************************************************************)
EXTENDS Integers, Sequences, FiniteSets, TLC

\* ------------------------------------------------------------------ bounds
MaxIn == 2          \* bytes the user types during a run that studies the input
MaxOut == 2         \* bytes the child writes during a run that studies the output
MaxTraffic == 1     \* bytes each way during a run that studies the life cycle
MaxOrphans == 1     \* reparented descendants that terminate during a run
BufSize == 1        \* sizeof(buf), scaled down: the most one read returns
MasterCap == 1      \* bytes the PTY input queue holds before a write is short
MaxLen == 3         \* length of an environment variable's value
MaxCalls == 2       \* ioctl calls made through the wrapper
MaxStray == 1       \* SIGCHLDs sent to the relay that no termination caused

\* --------------------------------------------------------------- constants
LF == 10
CR == 13
DefaultRows == 24
DefaultCols == 80
FallbackExit == 1
UShortMod == 65536

Min(a, b) == IF a < b THEN a ELSE b

Bytes == {LF, CR, 65}

RECURSIVE BytesOfLen(_, _)
BytesOfLen(A, k) == IF k = 0 THEN {<<>>}
                    ELSE {Append(s, b) : s \in BytesOfLen(A, k - 1), b \in A}

\* read(fd, buf, sizeof(buf)): the chunks it can return when at most k more
\* bytes, all of A, arrive in the run.
Chunks(A, k) == UNION {BytesOfLen(A, j) : j \in 1..Min(k, BufSize)}

\* ------------------------------------------------------- wait status words
\* The encoding <sys/wait.h> uses: the low 7 bits hold the terminating signal
\* (0 for a normal exit), bits 8..15 the exit code.
ExitCodes == {0, 255}
Signals == {9}

ExitedWith(c) == c * 256
SignaledBy(s) == s

WaitStatuses == {ExitedWith(c) : c \in ExitCodes} \cup {SignaledBy(s) : s \in Signals}

WIFEXITED(st) == (st % 128) = 0
WEXITSTATUS(st) == (st \div 256) % 256

\* return WIFEXITED(child_status) ? WEXITSTATUS(child_status) : 1;
ExitCodeOf(st) == IF WIFEXITED(st) THEN WEXITSTATUS(st) ELSE FallbackExit

\* --------------------------------------------------------- environment vars
\* A variable is unset, or set to a string (a sequence of characters).
EnvChars == {"0", "1", "2", "5", "-", "x"}
Digits == {"0", "1", "2", "5"}
DigitVal == [d \in Digits |-> CASE d = "0" -> 0 [] d = "1" -> 1 [] d = "2" -> 2 [] d = "5" -> 5]

RECURSIVE StringsOfLen(_)
StringsOfLen(k) == IF k = 0 THEN {<<>>}
                   ELSE {Append(s, ch) : s \in StringsOfLen(k - 1), ch \in EnvChars}

EnvStrings == UNION {StringsOfLen(k) : k \in 0..MaxLen}
Unset == [set |-> FALSE, val |-> <<>>]
EnvValues == {Unset} \cup {[set |-> TRUE, val |-> s] : s \in EnvStrings}

\* atoi(3): an optional sign, then the longest run of decimal digits; 0 when
\* there is none.  (Leading white space does not occur in EnvChars.)
RECURSIVE ParseDigits(_, _)
ParseDigits(s, acc) == IF s # <<>> /\ Head(s) \in Digits
                       THEN ParseDigits(Tail(s), acc * 10 + DigitVal[Head(s)])
                       ELSE acc

atoi(s) == IF s # <<>> /\ Head(s) = "-" THEN 0 - ParseDigits(Tail(s), 0)
           ELSE ParseDigits(s, 0)

\* (unsigned short)x
ToUShort(x) == x % UShortMod

\* -------------------------------------------------------- byte conversions
\* if (buf[i] == '\n') buf[i] = '\r';
ConvertByte(b) == IF b = LF THEN CR ELSE b

ConvertBuf(s) == [i \in 1..Len(s) |-> ConvertByte(s[i])]


\* ------------------------------------------------------- terminal attributes
\* A termios value is the set of mode flags that are on.
CookedAttrs == {"ICRNL", "ECHO", "ICANON", "ISIG", "CLOCAL"}
RawAttrs == {"CS8"}
ConsoleAttrs == {CookedAttrs, RawAttrs}

\* cfmakeraw(3): input translation, echo, canonical mode and signal characters
\* off, 8-bit characters on, everything else as it was.
cfmakeraw(t) == (t \ {"ICRNL", "ECHO", "ICANON", "ISIG"}) \cup {"CS8"}

\* ------------------------------------------------------------------- state
VARIABLES
  \* krun-relay: main's locals and the two globals
  pc, rows, cols, child_exited, child_status, master, have_orig, orig_termios,
  buf, revents0, revents1, exitStatus,
  \* the environment of the relay
  rowsEnv, colsEnv,       \* WRAPIX_TERM_ROWS, WRAPIX_TERM_COLS
  ptyWinsize,             \* the size the PTY was allocated with
  child, childSt,         \* the forked child and the status it terminated with
  zombies, orphansDied,   \* terminated reparented descendants, not yet reaped
  sigPending,             \* SIGCHLD is pending
  intr,                   \* a handler ran while main was inside a blocking call
  stdinIsTty, ttySettable, termAttrs, attrs0,
  stdinCond,              \* the console as stdin: ok, eof, hup or err
  mqLen,                  \* bytes queued in the PTY for the child to read
  \* history of the run
  stdinRead, ptyIn, masterRead, stdoutW,
  restores, rawSets, pollsAfterExit, loopEntered, loopEnd, waits, childReapedBy,
  \* what the environment does in the runs under study
  scope,
  \* libfakeuid: the last call through the ioctl wrapper
  ioCalls, ioReq, ioRealRet, ioRealArg, ioRet, ioArg,
  \* signals and errors
  rdMaster,               \* how line 133's read ended in this iteration of the loop
  straySigs,              \* SIGCHLDs received that no termination caused
  drainedLive             \* the drain has read output of a child still running

relayVars == <<pc, rows, cols, child_exited, child_status, master, have_orig,
               orig_termios, buf, revents0, revents1, exitStatus>>
procVars == <<child, childSt, zombies, orphansDied, sigPending, intr>>
termVars == <<stdinIsTty, ttySettable, termAttrs, attrs0>>
envVars == <<rowsEnv, colsEnv, ptyWinsize, scope>>
inVars == <<stdinCond, mqLen, stdinRead, ptyIn>>
outVars == <<masterRead, stdoutW>>
histVars == <<restores, rawSets, pollsAfterExit, loopEntered, loopEnd, waits, childReapedBy>>
ioctlVars == <<ioCalls, ioReq, ioRealRet, ioRealArg, ioRet, ioArg>>
sigVars == <<rdMaster, straySigs, drainedLive>>

relayVarsButPc == <<rows, cols, child_exited, child_status, master, have_orig,
                    orig_termios, buf, revents0, revents1, exitStatus>>

vars == <<relayVars, procVars, termVars, envVars, inVars, outVars, histVars, ioctlVars,
          sigVars>>

\* The calls in which main can sleep: poll, write to the console, waitpid.
BlockingPcs == {"poll", "write_stdout", "drain_write", "waitpid"}

RunningPcs == {"loop_test", "poll", "stdin_io", "master_io", "write_stdout"}

NoWinsize == [ws_row |-> 0, ws_col |-> 0, ws_xpixel |-> 0]


\* ----------------------------------------------------------------- initial
\* The state when main is entered.  The launcher's environment, the console
\* (a terminal or not, settable or not, its attributes) are inputs.
InitRelay ==
  /\ pc = "start"
  /\ rows = DefaultRows /\ cols = DefaultCols
  /\ child_exited = 0 /\ child_status = 0
  /\ master = "none"
  /\ have_orig = FALSE /\ orig_termios = {}
  /\ buf = <<>> /\ revents0 = {} /\ revents1 = {}
  /\ exitStatus = -1
  /\ ptyWinsize = NoWinsize
  /\ child = "none" /\ childSt = 0
  /\ zombies = <<>> /\ orphansDied = 0
  /\ sigPending = FALSE /\ intr = FALSE
  /\ stdinCond = "ok" /\ mqLen = 0
  /\ stdinRead = <<>> /\ ptyIn = <<>> /\ masterRead = <<>> /\ stdoutW = <<>>
  /\ restores = 0 /\ rawSets = 0 /\ pollsAfterExit = 0 /\ loopEntered = FALSE
  /\ loopEnd = "none" /\ waits = 0 /\ childReapedBy = "none"
  /\ rdMaster = "none" /\ straySigs = 0 /\ drainedLive = FALSE

InitShimIdle ==
  /\ ioCalls = 0 /\ ioReq = "none" /\ ioRealRet = 0 /\ ioRet = 0
  /\ ioRealArg = NoWinsize /\ ioArg = NoWinsize

\* stdin is the console, a terminal whose attributes can or cannot be changed,
\* or it is no terminal at all and tcgetattr fails on it.
InitConsole ==
  /\ \E c \in {<<TRUE, TRUE>>, <<TRUE, FALSE>>, <<FALSE, FALSE>>} :
        stdinIsTty = c[1] /\ ttySettable = c[2]
  /\ termAttrs \in ConsoleAttrs
  /\ attrs0 = termAttrs

Env(str) == [set |-> TRUE, val |-> str]

\* What a family of runs lets the environment do: how many bytes the user types
\* and the child writes, which bytes, how the child can terminate, whether reads
\* of the master fail and poll reports POLLERR for it, and how many SIGCHLDs
\* arrive that no termination caused.
LifeScope == [inQuota |-> MaxTraffic, inBytes |-> {65},
              outQuota |-> MaxTraffic, outBytes |-> {65},
              statuses |-> WaitStatuses, ioErrors |-> FALSE, strays |-> 0]
InScope == [inQuota |-> MaxIn, inBytes |-> Bytes,
            outQuota |-> MaxTraffic, outBytes |-> {65},
            statuses |-> {ExitedWith(0)}, ioErrors |-> FALSE, strays |-> 0]
OutScope == [inQuota |-> MaxTraffic, inBytes |-> {65},
             outQuota |-> MaxOut, outBytes |-> Bytes,
             statuses |-> {ExitedWith(0)}, ioErrors |-> FALSE, strays |-> 0]
ErrScope == [inQuota |-> MaxTraffic, inBytes |-> {65},
             outQuota |-> MaxTraffic, outBytes |-> {65},
             statuses |-> {ExitedWith(255)}, ioErrors |-> TRUE, strays |-> 0]
SigScope == [inQuota |-> MaxTraffic, inBytes |-> {65},
             outQuota |-> MaxTraffic, outBytes |-> {65},
             statuses |-> {ExitedWith(255)}, ioErrors |-> FALSE, strays |-> MaxStray]

\* The life cycle of the relay: every console, every termination of the child.
Init ==
  /\ InitRelay
  /\ InitShimIdle
  /\ InitConsole
  /\ rowsEnv = Env(<<"5", "0">>) /\ colsEnv = Unset
  /\ scope = LifeScope

\* ------------------------------------------------------------------ set-up
\* Lines 44-56: rows and cols from the environment, then sigaction(SIGCHLD).
ParseEnv ==
  /\ pc = "start"
  /\ rows' = IF rowsEnv.set THEN atoi(rowsEnv.val) ELSE rows
  /\ cols' = IF colsEnv.set THEN atoi(colsEnv.val) ELSE cols
  /\ pc' = "forkpty"
  /\ UNCHANGED <<child_exited, child_status, master, have_orig, orig_termios, buf,
                 revents0, revents1, exitStatus>>
  /\ UNCHANGED <<procVars, termVars, envVars, inVars, outVars, histVars, ioctlVars, sigVars>>

\* ForkptyFail without its return: perror, then on into the parent's code.
ForkptyFail_noReturn ==
  /\ pc = "forkpty"
  /\ pc' = "tcgetattr"
  /\ UNCHANGED relayVarsButPc
  /\ UNCHANGED <<procVars, termVars, envVars, inVars, outVars, histVars, ioctlVars, sigVars>>

\* Lines 64-68: forkpty fails; perror and return 1.
ForkptyFail ==
  /\ pc = "forkpty"
  /\ exitStatus' = 1
  /\ pc' = "done"
  /\ UNCHANGED <<rows, cols, child_exited, child_status, master, have_orig,
                 orig_termios, buf, revents0, revents1>>
  /\ UNCHANGED <<procVars, termVars, envVars, inVars, outVars, histVars, ioctlVars, sigVars>>

\* Lines 59-64: forkpty allocates the PTY with ws and forks the child, which
\* execs the command on the slave side (lines 70-81).
ForkptyOk ==
  /\ pc = "forkpty"
  /\ ptyWinsize' = [ws_row |-> ToUShort(rows), ws_col |-> ToUShort(cols), ws_xpixel |-> 0]
  /\ master' = "open"
  /\ child' = "running"
  /\ pc' = "tcgetattr"
  /\ UNCHANGED <<rows, cols, child_exited, child_status, have_orig, orig_termios,
                 buf, revents0, revents1, exitStatus>>
  /\ UNCHANGED <<childSt, zombies, orphansDied, sigPending, intr, rowsEnv, colsEnv, scope>>
  /\ UNCHANGED <<termVars, inVars, outVars, histVars, ioctlVars, sigVars>>

\* tcsetattr(STDIN_FILENO, TCSANOW, t): the console takes the attributes when it
\* supports changing them; the call's result is not looked at.
tcsetattr(t) == IF ttySettable THEN t ELSE termAttrs

\* Lines 88-99: capture the console's attributes, switch it to raw mode when the
\* capture succeeded, make the master non-blocking.
SetRaw ==
  /\ pc = "tcgetattr"
  /\ have_orig' = stdinIsTty
  /\ orig_termios' = IF stdinIsTty THEN termAttrs ELSE orig_termios
  /\ termAttrs' = IF stdinIsTty THEN tcsetattr(cfmakeraw(termAttrs)) ELSE termAttrs
  /\ rawSets' = IF stdinIsTty THEN rawSets + 1 ELSE rawSets
  /\ pc' = "loop_test"
  /\ UNCHANGED <<rows, cols, child_exited, child_status, master, buf, revents0,
                 revents1, exitStatus>>
  /\ UNCHANGED <<stdinIsTty, ttySettable, attrs0>>
  /\ UNCHANGED <<restores, pollsAfterExit, loopEnd, waits, childReapedBy, loopEntered>>
  /\ UNCHANGED <<procVars, envVars, inVars, outVars, ioctlVars, sigVars>>


\* ------------------------------------------------------------ relay loop
\* Line 104: while (!child_exited).
LoopTest ==
  /\ pc = "loop_test"
  /\ pc' = IF child_exited # 0 THEN "drain" ELSE "poll"
  /\ loopEnd' = IF child_exited # 0 THEN "exited" ELSE loopEnd
  /\ loopEntered' = TRUE
  /\ rdMaster' = IF child_exited # 0 THEN rdMaster ELSE "none"
  /\ UNCHANGED relayVarsButPc
  /\ UNCHANGED <<restores, rawSets, pollsAfterExit, waits, childReapedBy>>
  /\ UNCHANGED <<procVars, termVars, envVars, inVars, outVars, ioctlVars, straySigs, drainedLive>>

\* What poll reports for stdin in condition c, with or without input queued:
\* readable when input is queued, at end of file and on error; POLLHUP after a
\* hangup, POLLERR on error.
StdinRevents(c, queued) ==
  (IF queued \/ c \in {"eof", "err"} THEN {"POLLIN"} ELSE {})
  \cup (IF c = "hup" THEN {"POLLHUP"} ELSE {})
  \cup (IF c = "err" THEN {"POLLERR"} ELSE {})

\* What poll reports for the master: readable when output of the child is
\* queued, POLLHUP once the slave side is closed (the child is gone).
MasterRevents(queued) ==
  (IF queued THEN {"POLLIN"} ELSE {})
  \cup (IF child # "running" THEN {"POLLHUP"} ELSE {})

\* Line 142: once the child is gone poll can report POLLERR for the master, with
\* POLLHUP or in its place.
MasterPolls(queued) ==
  {MasterRevents(queued)}
  \cup (IF scope.ioErrors /\ child # "running"
          THEN {MasterRevents(queued) \cup {"POLLERR"},
                (MasterRevents(queued) \ {"POLLHUP"}) \cup {"POLLERR"}}
          ELSE {})

\* A poll that returns with the exited flag already set is a wait after the exit.
PollReturns ==
  pollsAfterExit' = IF child_exited # 0 THEN pollsAfterExit + 1 ELSE pollsAfterExit

\* Lines 111-113: poll is interrupted by a handled signal; continue.
PollEINTR ==
  /\ pc = "poll" /\ intr
  /\ PollReturns
  /\ intr' = FALSE
  /\ pc' = "loop_test"
  /\ UNCHANGED relayVarsButPc
  /\ UNCHANGED <<child, childSt, zombies, orphansDied, sigPending>>
  /\ UNCHANGED <<restores, rawSets, loopEnd, waits, childReapedBy, loopEntered>>
  /\ UNCHANGED <<termVars, envVars, inVars, outVars, ioctlVars, sigVars>>

\* PollFail that leaves for the restore instead of breaking out of the loop.
PollFail_skipsDrain ==
  /\ pc = "poll" /\ ~intr
  /\ PollReturns
  /\ pc' = "restore"
  /\ loopEnd' = "poll_err"
  /\ UNCHANGED relayVarsButPc
  /\ UNCHANGED <<restores, rawSets, waits, childReapedBy, loopEntered>>
  /\ UNCHANGED <<procVars, termVars, envVars, inVars, outVars, ioctlVars, sigVars>>

\* Lines 112-114: poll fails with another error; break.
PollFail ==
  /\ pc = "poll" /\ ~intr
  /\ PollReturns
  /\ pc' = "drain"
  /\ loopEnd' = "poll_err"
  /\ UNCHANGED relayVarsButPc
  /\ UNCHANGED <<restores, rawSets, waits, childReapedBy, loopEntered>>
  /\ UNCHANGED <<procVars, termVars, envVars, inVars, outVars, ioctlVars, sigVars>>

\* Line 116: the 200 ms pass with nothing ready; continue.
PollTimeout ==
  /\ pc = "poll" /\ ~intr
  /\ StdinRevents(stdinCond, FALSE) = {} /\ MasterRevents(FALSE) = {}
  /\ PollReturns
  /\ pc' = "loop_test"
  /\ UNCHANGED relayVarsButPc
  /\ UNCHANGED <<restores, rawSets, loopEnd, waits, childReapedBy, loopEntered>>
  /\ UNCHANGED <<procVars, termVars, envVars, inVars, outVars, ioctlVars, sigVars>>

\* Line 111: poll returns the ready descriptors.  Since the last poll the
\* console may have reached end of file, hung up or failed, the user may have
\* typed, the child may have written.
PollReady ==
  /\ pc = "poll" /\ ~intr
  /\ \E c \in (IF stdinCond = "ok" THEN {"ok", "eof", "hup", "err"} ELSE {stdinCond}),
        typed \in (IF Len(stdinRead) < scope.inQuota THEN BOOLEAN ELSE {FALSE}),
        written \in (IF Len(masterRead) < scope.outQuota THEN BOOLEAN ELSE {FALSE}) :
       \E r1 \in MasterPolls(written) :
         /\ StdinRevents(c, typed) \cup r1 # {}
         /\ stdinCond' = c
         /\ revents0' = StdinRevents(c, typed)
         /\ revents1' = r1
  /\ PollReturns
  /\ pc' = "stdin_io"
  /\ UNCHANGED <<rows, cols, child_exited, child_status, master, have_orig,
                 orig_termios, buf, exitStatus>>
  /\ UNCHANGED <<mqLen, stdinRead, ptyIn>>
  /\ UNCHANGED <<restores, rawSets, loopEnd, waits, childReapedBy, loopEntered>>
  /\ UNCHANGED <<procVars, termVars, envVars, outVars, ioctlVars, sigVars>>

\* write(master, buf, n) on the non-blocking master, with q bytes queued in the
\* PTY: the PTY takes what its input queue has room for, and nothing once the
\* slave side is closed; the count it returns is not looked at.
MasterAccepts(n, q) == IF child = "running" THEN Min(n, MasterCap - q) ELSE 0

\* Lines 119-129: stdin to the master, each LF replaced by CR.  A running child
\* has read what was queued for it, or has not read yet.
RelayStdin ==
  /\ pc = "stdin_io"
  /\ \/ /\ "POLLIN" \notin revents0
        /\ pc' = "master_io"
        /\ UNCHANGED <<loopEnd, inVars>>
     \/ \* read fails: n < 0, break
        /\ "POLLIN" \in revents0 /\ stdinCond = "err"
        /\ pc' = "drain"
        /\ loopEnd' = "stdin_err"
        /\ UNCHANGED inVars
     \/ \* end of file: n = 0, break
        /\ "POLLIN" \in revents0 /\ stdinCond \in {"eof", "hup"}
        /\ pc' = "drain"
        /\ loopEnd' = "stdin_eof"
        /\ UNCHANGED inVars
     \/ /\ "POLLIN" \in revents0 /\ stdinCond # "err"
        /\ \E chunk \in Chunks(scope.inBytes, scope.inQuota - Len(stdinRead)),
              q \in (IF child = "running" THEN {0, mqLen} ELSE {mqLen}) :
             LET k == MasterAccepts(Len(chunk), q) IN
             /\ stdinRead' = stdinRead \o chunk
             /\ ptyIn' = ptyIn \o SubSeq(ConvertBuf(chunk), 1, k)
             /\ mqLen' = q + k
        /\ pc' = "master_io"
        /\ UNCHANGED <<loopEnd, stdinCond>>
  /\ UNCHANGED relayVarsButPc
  /\ UNCHANGED <<restores, rawSets, pollsAfterExit, waits, childReapedBy, loopEntered>>
  /\ UNCHANGED <<procVars, termVars, envVars, outVars, ioctlVars, sigVars>>

\* HupSeen without line 141.
HupSeen_stdinOnly == revents0 \cap {"POLLHUP", "POLLERR"} # {}

\* Lines 140-141: hangup or error on stdin, hangup on the master; break.
HupSeen == revents0 \cap {"POLLHUP", "POLLERR"} # {} \/ "POLLHUP" \in revents1

\* How read(master, ...) of line 133 can end: with data, or with n < 0 and errno
\* EAGAIN (nothing to read after all), EIO (the slave side is closed) or
\* another error.
MasterReads ==
  {"data"} \cup (IF scope.ioErrors
                   THEN {"EAGAIN", "other"} \cup (IF child # "running" THEN {"EIO"} ELSE {})
                   ELSE {})

\* ReadMaster without the "&& errno != EIO" of line 136.
ReadMaster_eioBreaks ==
  /\ pc = "master_io"
  /\ IF "POLLIN" \in revents1
       THEN \E out \in MasterReads :
              IF out = "data"
                THEN /\ \E chunk \in Chunks(scope.outBytes, scope.outQuota - Len(masterRead)) :
                          /\ buf' = chunk
                          /\ masterRead' = masterRead \o chunk
                     /\ rdMaster' = out
                     /\ pc' = "write_stdout"
                     /\ UNCHANGED <<stdoutW, loopEnd>>
                ELSE /\ rdMaster' = out
                     /\ pc' = IF out \in {"other", "EIO"} \/ HupSeen THEN "drain" ELSE "loop_test"
                     /\ loopEnd' = IF out \in {"other", "EIO"} THEN "master_err"
                                   ELSE IF HupSeen THEN "hup" ELSE loopEnd
                     /\ UNCHANGED <<buf, outVars>>
       ELSE /\ pc' = IF HupSeen THEN "drain" ELSE "loop_test"
            /\ loopEnd' = IF HupSeen THEN "hup" ELSE loopEnd
            /\ UNCHANGED <<buf, outVars, rdMaster>>
  /\ UNCHANGED <<rows, cols, child_exited, child_status, master, have_orig,
                 orig_termios, revents0, revents1, exitStatus>>
  /\ UNCHANGED <<restores, rawSets, pollsAfterExit, waits, childReapedBy, loopEntered>>
  /\ UNCHANGED <<procVars, termVars, envVars, inVars, ioctlVars, straySigs, drainedLive>>

\* Lines 132-137: read the readable master; data goes on to line 135, an error
\* other than EAGAIN and EIO breaks.  Then lines 140-141 when nothing is to be
\* written.
ReadMaster ==
  /\ pc = "master_io"
  /\ IF "POLLIN" \in revents1
       THEN \E out \in MasterReads :
              IF out = "data"
                THEN /\ \E chunk \in Chunks(scope.outBytes, scope.outQuota - Len(masterRead)) :
                          /\ buf' = chunk
                          /\ masterRead' = masterRead \o chunk
                     /\ rdMaster' = out
                     /\ pc' = "write_stdout"
                     /\ UNCHANGED <<stdoutW, loopEnd>>
                ELSE /\ rdMaster' = out
                     /\ pc' = IF out = "other" \/ HupSeen THEN "drain" ELSE "loop_test"
                     /\ loopEnd' = IF out = "other" THEN "master_err"
                                   ELSE IF HupSeen THEN "hup" ELSE loopEnd
                     /\ UNCHANGED <<buf, outVars>>
       ELSE /\ pc' = IF HupSeen THEN "drain" ELSE "loop_test"
            /\ loopEnd' = IF HupSeen THEN "hup" ELSE loopEnd
            /\ UNCHANGED <<buf, outVars, rdMaster>>
  /\ UNCHANGED <<rows, cols, child_exited, child_status, master, have_orig,
                 orig_termios, revents0, revents1, exitStatus>>
  /\ UNCHANGED <<restores, rawSets, pollsAfterExit, waits, childReapedBy, loopEntered>>
  /\ UNCHANGED <<procVars, termVars, envVars, inVars, ioctlVars, straySigs, drainedLive>>

\* write(STDOUT_FILENO, buf, n): the console takes the whole chunk, unless a
\* handled signal interrupts the write while it sleeps; then it has taken a part
\* of the chunk (or nothing).  The count it returns is not looked at.
ConsoleTakes(len) == IF intr THEN 0..(len - 1) ELSE {len}

\* Line 135, then lines 140-141.
WriteStdout ==
  /\ pc = "write_stdout"
  /\ \E k \in ConsoleTakes(Len(buf)) : stdoutW' = stdoutW \o SubSeq(buf, 1, k)
  /\ buf' = <<>>
  /\ intr' = FALSE
  /\ pc' = IF HupSeen THEN "drain" ELSE "loop_test"
  /\ loopEnd' = IF HupSeen THEN "hup" ELSE loopEnd
  /\ UNCHANGED <<rows, cols, child_exited, child_status, master, have_orig,
                 orig_termios, revents0, revents1, exitStatus>>
  /\ UNCHANGED <<child, childSt, zombies, orphansDied, sigPending>>
  /\ UNCHANGED masterRead
  /\ UNCHANGED <<restores, rawSets, pollsAfterExit, waits, childReapedBy, loopEntered>>
  /\ UNCHANGED <<termVars, envVars, inVars, ioctlVars, sigVars>>

\* ---------------------------------------------------------- drain, teardown
\* DrainRead with "continue" for the "break" of line 148.
DrainRead_neverEnds ==
  /\ pc = "drain"
  /\ \/ /\ Len(masterRead) < scope.outQuota
        /\ \E chunk \in Chunks(scope.outBytes, scope.outQuota - Len(masterRead)) :
             /\ buf' = chunk
             /\ masterRead' = masterRead \o chunk
        /\ drainedLive' = (drainedLive \/ child = "running")
        /\ pc' = "drain_write"
        /\ UNCHANGED stdoutW
     \/ /\ pc' = "drain"
        /\ UNCHANGED <<buf, outVars, drainedLive>>
  /\ UNCHANGED <<rows, cols, child_exited, child_status, master, have_orig,
                 orig_termios, revents0, revents1, exitStatus>>
  /\ UNCHANGED <<procVars, termVars, envVars, inVars, histVars, ioctlVars>>
  /\ UNCHANGED <<rdMaster, straySigs>>

\* Lines 146-148: read the master; with nothing queued the non-blocking read
\* returns n <= 0 and the drain ends.
DrainRead ==
  /\ pc = "drain"
  /\ \/ /\ Len(masterRead) < scope.outQuota
        /\ \E chunk \in Chunks(scope.outBytes, scope.outQuota - Len(masterRead)) :
             /\ buf' = chunk
             /\ masterRead' = masterRead \o chunk
        /\ drainedLive' = (drainedLive \/ child = "running")
        /\ pc' = "drain_write"
        /\ UNCHANGED stdoutW
     \/ /\ pc' = "close"
        /\ UNCHANGED <<buf, outVars, drainedLive>>
  /\ UNCHANGED <<rows, cols, child_exited, child_status, master, have_orig,
                 orig_termios, revents0, revents1, exitStatus>>
  /\ UNCHANGED <<procVars, termVars, envVars, inVars, histVars, ioctlVars>>
  /\ UNCHANGED <<rdMaster, straySigs>>

\* Line 149.
DrainWrite ==
  /\ pc = "drain_write"
  /\ \E k \in ConsoleTakes(Len(buf)) : stdoutW' = stdoutW \o SubSeq(buf, 1, k)
  /\ buf' = <<>>
  /\ intr' = FALSE
  /\ pc' = "drain"
  /\ UNCHANGED <<rows, cols, child_exited, child_status, master, have_orig,
                 orig_termios, revents0, revents1, exitStatus>>
  /\ UNCHANGED <<child, childSt, zombies, orphansDied, sigPending>>
  /\ UNCHANGED masterRead
  /\ UNCHANGED <<termVars, envVars, inVars, histVars, ioctlVars, sigVars>>

\* CloseMaster with the close left for after the wait.
CloseMaster_leavesOpen ==
  /\ pc = "close"
  /\ pc' = "restore"
  /\ UNCHANGED relayVarsButPc
  /\ UNCHANGED <<procVars, termVars, envVars, inVars, outVars, histVars, ioctlVars, sigVars>>

\* Line 152.
CloseMaster ==
  /\ pc = "close"
  /\ master' = "closed"
  /\ pc' = "restore"
  /\ UNCHANGED <<rows, cols, child_exited, child_status, have_orig, orig_termios,
                 buf, revents0, revents1, exitStatus>>
  /\ UNCHANGED <<procVars, termVars, envVars, inVars, outVars, histVars, ioctlVars, sigVars>>

\* RestoreTermios moved into the "not yet reaped" branch of line 159.
RestoreTermios_unlessExited ==
  /\ pc = "restore"
  /\ termAttrs' = IF have_orig /\ child_exited = 0 THEN tcsetattr(orig_termios) ELSE termAttrs
  /\ restores' = IF have_orig /\ child_exited = 0 THEN restores + 1 ELSE restores
  /\ pc' = "reap_test"
  /\ UNCHANGED relayVarsButPc
  /\ UNCHANGED <<stdinIsTty, ttySettable, attrs0>>
  /\ UNCHANGED <<rawSets, pollsAfterExit, loopEnd, waits, childReapedBy, loopEntered>>
  /\ UNCHANGED <<procVars, envVars, inVars, outVars, ioctlVars, sigVars>>

\* Lines 155-156.
RestoreTermios ==
  /\ pc = "restore"
  /\ termAttrs' = IF have_orig THEN tcsetattr(orig_termios) ELSE termAttrs
  /\ restores' = IF have_orig THEN restores + 1 ELSE restores
  /\ pc' = "reap_test"
  /\ UNCHANGED relayVarsButPc
  /\ UNCHANGED <<stdinIsTty, ttySettable, attrs0>>
  /\ UNCHANGED <<rawSets, pollsAfterExit, loopEnd, waits, childReapedBy, loopEntered>>
  /\ UNCHANGED <<procVars, envVars, inVars, outVars, ioctlVars, sigVars>>

\* Line 159: if (!child_exited).
ReapTest ==
  /\ pc = "reap_test"
  /\ pc' = IF child_exited # 0 THEN "return" ELSE "waitpid"
  /\ waits' = IF child_exited # 0 THEN waits ELSE waits + 1
  /\ UNCHANGED relayVarsButPc
  /\ UNCHANGED <<restores, rawSets, pollsAfterExit, loopEnd, childReapedBy, loopEntered>>
  /\ UNCHANGED <<procVars, termVars, envVars, inVars, outVars, ioctlVars, sigVars>>

\* WaitpidReaps that also marks the child as exited.
WaitpidReaps_setsFlag ==
  /\ pc = "waitpid"
  /\ child = "zombie"
  /\ child' = "reaped"
  /\ childReapedBy' = "wait"
  /\ child_status' = childSt
  /\ child_exited' = 1
  /\ intr' = FALSE
  /\ pc' = "return"
  /\ UNCHANGED <<rows, cols, master, have_orig, orig_termios, buf,
                 revents0, revents1, exitStatus>>
  /\ UNCHANGED <<childSt, zombies, orphansDied, sigPending>>
  /\ UNCHANGED <<restores, rawSets, pollsAfterExit, loopEnd, waits, loopEntered>>
  /\ UNCHANGED <<termVars, envVars, inVars, outVars, ioctlVars, sigVars>>

\* Lines 160-162, the child has terminated and is not reaped: waitpid returns
\* its status.
WaitpidReaps ==
  /\ pc = "waitpid"
  /\ child = "zombie"
  /\ child' = "reaped"
  /\ childReapedBy' = "wait"
  /\ child_status' = childSt
  /\ intr' = FALSE
  /\ pc' = "return"
  /\ UNCHANGED <<rows, cols, child_exited, master, have_orig, orig_termios, buf,
                 revents0, revents1, exitStatus>>
  /\ UNCHANGED <<childSt, zombies, orphansDied, sigPending>>
  /\ UNCHANGED <<restores, rawSets, pollsAfterExit, loopEnd, waits, loopEntered>>
  /\ UNCHANGED <<termVars, envVars, inVars, outVars, ioctlVars, sigVars>>

\* Lines 160-162, waitpid fails and leaves the local "status" unwritten: with
\* ECHILD when the handler has reaped the child since line 159, with EINTR when a
\* handled signal interrupts the wait for the running child.  child_status then
\* receives an uninitialised int.
WaitpidFails ==
  /\ pc = "waitpid"
  /\ child = "reaped" \/ (child = "running" /\ intr)
  /\ child_status' \in WaitStatuses
  /\ intr' = FALSE
  /\ pc' = "return"
  /\ UNCHANGED <<rows, cols, child_exited, master, have_orig, orig_termios, buf,
                 revents0, revents1, exitStatus>>
  /\ UNCHANGED <<child, childSt, zombies, orphansDied, sigPending>>
  /\ UNCHANGED <<termVars, envVars, inVars, outVars, histVars, ioctlVars, sigVars>>

\* Line 165.
Return ==
  /\ pc = "return"
  /\ exitStatus' = ExitCodeOf(child_status)
  /\ pc' = "done"
  /\ UNCHANGED <<rows, cols, child_exited, child_status, master, have_orig,
                 orig_termios, buf, revents0, revents1>>
  /\ UNCHANGED <<procVars, termVars, envVars, inVars, outVars, histVars, ioctlVars, sigVars>>

\* ------------------------------------------------------- sigchld_handler
RemoveAt(q, i) == SubSeq(q, 1, i - 1) \o SubSeq(q, i + 1, Len(q))

\* Lines 34-41.  waitpid(-1, &status, WNOHANG) collects one terminated child of
\* the relay, the forked child or a reparented orphan; whichever it is, its
\* status goes to child_status and child_exited is set.  A handler that runs
\* while main sleeps in a blocking call interrupts the call (no SA_RESTART).
sigchld_handler ==
  /\ sigPending
  /\ pc \notin {"start", "done"}
  /\ sigPending' = FALSE
  /\ \/ /\ child = "zombie"
        /\ child' = "reaped"
        /\ childReapedBy' = "handler"
        /\ child_status' = childSt
        /\ child_exited' = 1
        /\ UNCHANGED zombies
     \/ \E i \in 1..Len(zombies) :
          /\ zombies' = RemoveAt(zombies, i)
          /\ child_status' = zombies[i]
          /\ child_exited' = 1
          /\ UNCHANGED <<child, childReapedBy>>
     \/ /\ child # "zombie" /\ zombies = <<>>
        /\ UNCHANGED <<child, childReapedBy, child_status, child_exited, zombies>>
  /\ intr' \in IF pc \in BlockingPcs THEN (IF intr THEN {TRUE} ELSE BOOLEAN) ELSE {FALSE}
  /\ UNCHANGED <<pc, rows, cols, master, have_orig, orig_termios, buf, revents0,
                 revents1, exitStatus>>
  /\ UNCHANGED <<childSt, orphansDied>>
  /\ UNCHANGED <<restores, rawSets, pollsAfterExit, loopEnd, waits, loopEntered>>
  /\ UNCHANGED <<termVars, envVars, inVars, outVars, ioctlVars, sigVars>>

\* ------------------------------------------------------------ environment
\* The child terminates: normally with an exit code, or by a signal.
ChildExits ==
  /\ child = "running" /\ pc # "done"
  /\ \E st \in scope.statuses : childSt' = st
  /\ child' = "zombie"
  /\ sigPending' = TRUE
  /\ UNCHANGED <<zombies, orphansDied, intr>>
  /\ UNCHANGED <<relayVars, termVars, envVars, inVars, outVars, histVars, ioctlVars, sigVars>>

\* A descendant of the child that was reparented to the relay (PID 1) terminates.
OrphanStatuses == {ExitedWith(0)}

OrphanExits ==
  /\ child # "none" /\ pc # "done"
  /\ orphansDied < MaxOrphans
  /\ \E st \in OrphanStatuses : zombies' = Append(zombies, st)
  /\ orphansDied' = orphansDied + 1
  /\ sigPending' = TRUE
  /\ UNCHANGED <<child, childSt, intr>>
  /\ UNCHANGED <<relayVars, termVars, envVars, inVars, outVars, histVars, ioctlVars, sigVars>>

\* ------------------------------------------------------------ the relay
Next ==
  \/ ParseEnv \/ ForkptyFail \/ ForkptyOk \/ SetRaw
  \/ LoopTest \/ PollEINTR \/ PollFail \/ PollTimeout \/ PollReady
  \/ RelayStdin \/ ReadMaster \/ WriteStdout
  \/ DrainRead \/ DrainWrite \/ CloseMaster \/ RestoreTermios
  \/ ReapTest \/ WaitpidReaps \/ WaitpidFails \/ Return
  \/ sigchld_handler
  \/ ChildExits \/ OrphanExits

Spec == Init /\ [][Next]_vars

\* ---------------------------------------- runs that study the two directions
FixedConsole ==
  /\ stdinIsTty = TRUE /\ ttySettable = TRUE
  /\ termAttrs = CookedAttrs /\ attrs0 = CookedAttrs

\* Runs in which the user types up to MaxIn bytes of any value.
InitIn ==
  /\ InitRelay /\ InitShimIdle /\ FixedConsole
  /\ rowsEnv = Unset /\ colsEnv = Unset
  /\ scope = InScope

SpecIn == InitIn /\ [][Next]_vars

\* Runs in which the child writes up to MaxOut bytes of any value.
InitOut ==
  /\ InitRelay /\ InitShimIdle /\ FixedConsole
  /\ rowsEnv = Unset /\ colsEnv = Unset
  /\ scope = OutScope

SpecOut == InitOut /\ [][Next]_vars

\* ------------------------------------------------ errors on the PTY master
\* Runs in which reads of the master can fail and poll can report POLLERR for it.
InitErr ==
  /\ InitRelay /\ InitShimIdle /\ FixedConsole
  /\ rowsEnv = Unset /\ colsEnv = Unset
  /\ scope = ErrScope

SpecErr == InitErr /\ [][Next]_vars

\* ------------------------------------------------------ unrelated signals
\* Lines 51-56 install sigchld_handler for every SIGCHLD, also for one that no
\* termination caused: a process of the VM sends it to the relay with kill(2).
StraySignal ==
  /\ pc \notin {"start", "done"}
  /\ straySigs < scope.strays
  /\ straySigs' = straySigs + 1
  /\ sigPending' = TRUE
  /\ UNCHANGED <<child, childSt, zombies, orphansDied, intr, rdMaster, drainedLive>>
  /\ UNCHANGED <<relayVars, termVars, envVars, inVars, outVars, histVars, ioctlVars>>

InitSig ==
  /\ InitRelay /\ InitShimIdle /\ FixedConsole
  /\ rowsEnv = Unset /\ colsEnv = Unset
  /\ scope = SigScope

NextSig == Next \/ StraySignal

SpecSig == InitSig /\ [][NextSig]_vars

\* ------------------------------------------------------------- progress
\* The steps of main: the relay is a running process, so main takes its next
\* step whenever it has one (every read, write and poll returns; waitpid
\* returns once the child has terminated or a signal interrupts it).
MainStep ==
  \/ ParseEnv \/ ForkptyFail \/ ForkptyOk \/ SetRaw
  \/ LoopTest \/ PollEINTR \/ PollFail \/ PollTimeout \/ PollReady
  \/ RelayStdin \/ ReadMaster \/ WriteStdout
  \/ DrainRead \/ DrainWrite \/ CloseMaster \/ RestoreTermios
  \/ ReapTest \/ WaitpidReaps \/ WaitpidFails \/ Return

\* A pending SIGCHLD is delivered, and the child eventually terminates.
SpecLive ==
  /\ SpecErr
  /\ WF_vars(MainStep)
  /\ WF_vars(sigchld_handler)
  /\ WF_vars(ChildExits)

\* ------------------------------------------- the size the PTY is allocated with
\* Starts of the relay under every value of the two variables.
InitEnv ==
  /\ InitRelay /\ InitShimIdle /\ FixedConsole
  /\ rowsEnv \in EnvValues /\ colsEnv \in EnvValues
  /\ scope = LifeScope

NextEnv == ParseEnv \/ ForkptyFail \/ ForkptyOk

SpecEnv == InitEnv /\ [][NextEnv]_vars

\* ---------------------------------------------------- libfakeuid: ioctl
Requests == {"TIOCGWINSZ", "TCGETS"}
WinsizeValues == [ws_row : {0, 24}, ws_col : {0, 80}, ws_xpixel : {0, 640}]

\* FakeIoctl without the "ret != 0 ||" of line 42.
FakeIoctl_zeroSizeOnly(request, ret, arg, r, c) ==
  IF request = "TIOCGWINSZ" /\ arg.ws_row = 0 /\ arg.ws_col = 0
    THEN [ret |-> 0,
          arg |-> [arg EXCEPT
                     !.ws_row = IF r.set THEN ToUShort(atoi(r.val)) ELSE @,
                     !.ws_col = IF c.set THEN ToUShort(atoi(c.val)) ELSE @]]
    ELSE [ret |-> ret, arg |-> arg]

\* fakeuid.c lines 37-51, given what real_ioctl returned and what it left in
\* *arg: a TIOCGWINSZ that failed, or that reports 0 rows and 0 columns, has each
\* dimension whose variable is set overwritten and returns 0.
FakeIoctl(request, ret, arg, r, c) ==
  IF request = "TIOCGWINSZ" /\ (ret # 0 \/ (arg.ws_row = 0 /\ arg.ws_col = 0))
    THEN [ret |-> 0,
          arg |-> [arg EXCEPT
                     !.ws_row = IF r.set THEN ToUShort(atoi(r.val)) ELSE @,
                     !.ws_col = IF c.set THEN ToUShort(atoi(c.val)) ELSE @]]
    ELSE [ret |-> ret, arg |-> arg]

\* A process that has the library preloaded calls ioctl; real_ioctl returns
\* ret and leaves a in the caller's argument.
IoctlCall ==
  /\ ioCalls < MaxCalls
  /\ \E request \in Requests, ret \in {0, -1}, a \in WinsizeValues :
       LET out == FakeIoctl(request, ret, a, rowsEnv, colsEnv) IN
       /\ ioReq' = request
       /\ ioRealRet' = ret
       /\ ioRealArg' = a
       /\ ioRet' = out.ret
       /\ ioArg' = out.arg
  /\ ioCalls' = ioCalls + 1
  /\ UNCHANGED <<relayVars, procVars, termVars, envVars, inVars, outVars, histVars, sigVars>>

ShimEnvValues == {Unset, Env(<<"5", "0">>), Env(<<"x">>), Env(<<"-", "1">>)}

InitIoctl ==
  /\ InitRelay /\ FixedConsole
  /\ ioCalls = 0 /\ ioReq = "none" /\ ioRealRet = 0 /\ ioRet = 0
  /\ ioRealArg = NoWinsize /\ ioArg = NoWinsize
  /\ rowsEnv \in ShimEnvValues /\ colsEnv \in ShimEnvValues
  /\ scope = LifeScope

NextIoctl == IoctlCall

SpecIoctl == InitIoctl /\ [][NextIoctl]_vars

\* ===================================================================== claims
ChildTerminated == child \in {"zombie", "reaped"}

\* C1: for a child that terminates normally with exit code c, the relay's exit
\* status is c, wherever the handler ran relative to main.
C1_ExitStatusIsChildCode ==
  (pc = "done" /\ ChildTerminated /\ WIFEXITED(childSt))
    => exitStatus = WEXITSTATUS(childSt)

\* C2: when the capture succeeded, the snapshot is restored exactly once, in
\* teardown and never before, whatever ended the loop, and from then on the
\* console has the attributes it had at the start; when the capture failed, the
\* console's attributes are never changed.
AfterRestore == {"reap_test", "waitpid", "return", "done"}

C2_RestoreExactlyOnce ==
  /\ have_orig =>
       /\ orig_termios = attrs0
       /\ rawSets = 1
       /\ restores = (IF pc \in AfterRestore THEN 1 ELSE 0)
       /\ pc \in AfterRestore => termAttrs = orig_termios
  /\ ~have_orig => (termAttrs = attrs0 /\ rawSets = 0 /\ restores = 0)

C2_Witness ==
  /\ pc = "done" /\ have_orig /\ loopEnd = "poll_err"
  /\ restores = 1
  /\ termAttrs = CookedAttrs /\ cfmakeraw(orig_termios) # orig_termios

\* C3: once the relay has returned after a successful spawn, the PTY master is
\* closed and the spawned child has terminated and been reaped.
C3_NothingLeftUnreaped ==
  (pc = "done" /\ child # "none") => (master = "closed" /\ child = "reaped")

\* C4: after the exited flag is set the loop is left within one readiness wait;
\* a run in which the flag is set during a wait and ends the loop, with stdin
\* still open, then ends with the exit code of the child that has exited.
C4_ExitSeenWithinOneWait ==
  /\ pollsAfterExit <= 1
  /\ (pc = "done" /\ loopEnd = "exited" /\ pollsAfterExit = 1 /\ stdinCond = "ok"
        /\ ChildTerminated /\ WIFEXITED(childSt))
       => exitStatus = WEXITSTATUS(childSt)

\* C5: while the child is there to read, the bytes that reached the PTY master
\* are the bytes read from stdin with each LF replaced by CR, none dropped.
C5_StdinReachesMaster ==
  child = "running" => ptyIn = ConvertBuf(stdinRead)

\* C6: between two transfers, the bytes written to stdout are exactly the bytes
\* read from the PTY master, in order.
C6_MasterReachesStdout ==
  pc \notin {"write_stdout", "drain_write"} => stdoutW = masterRead

\* C7: for a child terminated by a signal the relay's exit status is 1.
C7_SignaledChildGivesFallback ==
  (pc = "done" /\ ChildTerminated /\ ~WIFEXITED(childSt))
    => exitStatus = FallbackExit

\* C8: when forkpty fails the relay exits at once with status 1: it never
\* enters the loop, never captures or changes the console's attributes, never
\* reads stdin, never waits for a child.
C8_SetupFailureExitsAtOnce ==
  child = "none" =>
    /\ pc \in {"start", "forkpty", "done"}
    /\ pc = "done" => exitStatus = FallbackExit
    /\ ~loopEntered /\ loopEnd = "none" /\ pollsAfterExit = 0
    /\ ~have_orig /\ termAttrs = attrs0 /\ rawSets = 0 /\ restores = 0
    /\ stdinRead = <<>> /\ ptyIn = <<>>
    /\ waits = 0 /\ child_exited = 0
    /\ master = "none"

C8_Witness == pc = "done" /\ child = "none" /\ exitStatus = FallbackExit

\* C9: the PTY is allocated with the numeric value of each variable that is set
\* and is a number, and with 24 rows or 80 columns when the variable is unset
\* or is no number.
IsNumber(str) == str # <<>> /\ \A i \in 1..Len(str) : str[i] \in Digits

ExpectedDim(e, default) ==
  IF e.set /\ IsNumber(e.val) THEN ParseDigits(e.val, 0) ELSE default

C9_PtySizeFromEnv ==
  child # "none" =>
    /\ ptyWinsize.ws_row = ExpectedDim(rowsEnv, DefaultRows)
    /\ ptyWinsize.ws_col = ExpectedDim(colsEnv, DefaultCols)

\* C10, as claimed: every call returns what the underlying ioctl returned and
\* leaves the argument as the underlying ioctl left it, except a terminal-size
\* query that reports 0 rows and 0 columns.
ZeroSize == ioRealArg.ws_row = 0 /\ ioRealArg.ws_col = 0

C10_OnlyZeroSizePatched ==
  (ioCalls > 0 /\ ~(ioReq = "TIOCGWINSZ" /\ ZeroSize))
    => (ioRet = ioRealRet /\ ioArg = ioRealArg)

\* C10, amended: a terminal-size query that fails, or that reports 0 rows and 0
\* columns, returns 0 with each dimension whose variable is set rewritten from
\* it and everything else as the underlying ioctl left it; every other call
\* returns what the underlying ioctl returned and leaves the argument alone.
C10_FailedOrZeroSizePatched ==
  ioCalls > 0 =>
    IF ioReq = "TIOCGWINSZ" /\ (ioRealRet # 0 \/ ZeroSize)
      THEN /\ ioRet = 0
           /\ ioArg.ws_row = (IF rowsEnv.set THEN ToUShort(atoi(rowsEnv.val))
                              ELSE ioRealArg.ws_row)
           /\ ioArg.ws_col = (IF colsEnv.set THEN ToUShort(atoi(colsEnv.val))
                              ELSE ioRealArg.ws_col)
           /\ ioArg.ws_xpixel = ioRealArg.ws_xpixel
      ELSE ioRet = ioRealRet /\ ioArg = ioRealArg

C10_Witness ==
  /\ ioCalls > 0 /\ ioReq = "TIOCGWINSZ"
  /\ ioRealRet # 0 /\ ~ZeroSize
  /\ rowsEnv = Env(<<"5", "0">>) /\ ioArg.ws_row = 50 /\ ioRet = 0

\* C11: after a successful spawn the phases follow one another, RUNNING, then
\* DRAINING, then TERMINATED, and never go back; every step that leaves RUNNING
\* enters the drain with the reason recorded, the drain is left only through the
\* close of the master, the close is followed by the restore and the restore by
\* the reap test; once RUNNING is left stdin is not read and nothing is written
\* to the master; the master is open before the close and closed after it.
DrainingPcs == {"drain", "drain_write", "close"}
TerminatedPcs == {"restore", "reap_test", "waitpid", "return", "done"}

Phase(p) == IF p \in RunningPcs THEN 1
            ELSE IF p \in DrainingPcs THEN 2
            ELSE IF p \in TerminatedPcs THEN 3 ELSE 0

LoopEnds == {"exited", "poll_err", "stdin_err", "stdin_eof", "master_err", "hup"}

C11_PhasesLinear ==
  [][child # "none" =>
       /\ Phase(pc') >= Phase(pc)
       /\ (pc \in RunningPcs /\ pc' \notin RunningPcs)
            => (pc' = "drain" /\ loopEnd' \in LoopEnds)
       /\ (pc \in DrainingPcs /\ pc' \notin DrainingPcs)
            => (pc = "close" /\ pc' = "restore" /\ master' = "closed")
       /\ (pc = "restore" /\ pc' # pc)
            => (pc' = "reap_test" /\ restores' = (IF have_orig THEN 1 ELSE 0))
       /\ (pc = "reap_test" /\ pc' # pc) => pc' \in {"waitpid", "return"}
       /\ pc \notin RunningPcs => (stdinRead' = stdinRead /\ ptyIn' = ptyIn)
       /\ Phase(pc) \in {1, 2} => master = "open"
       /\ Phase(pc) = 3 => master = "closed"]_vars

C11_Witness ==
  /\ pc = "done" /\ child # "none" /\ loopEnd = "master_err"
  /\ master = "closed" /\ have_orig /\ restores = 1 /\ waits = 1

\* C12: whenever main tests the exited flag (lines 104 and 159) and finds it
\* set, the spawned child has terminated and has been reaped by the handler, and
\* child_status holds the status the child terminated with.
FlagTests == {"loop_test", "reap_test"}

C12_FlagMeansChildReaped ==
  (pc \in FlagTests /\ child_exited # 0)
    => (child = "reaped" /\ childReapedBy = "handler" /\ child_status = childSt)

\* C13, as claimed: only the handler changes the exited flag or the status
\* word, and the flag, once set, is never cleared.
C13_OnlyHandlerWrites ==
  [][/\ (child_exited' # child_exited \/ child_status' # child_status)
          => sigchld_handler
     /\ child_exited # 0 => child_exited' # 0]_vars

\* C13, amended: only the handler changes the exited flag, and only from clear
\* to set; the status word is changed by the handler and, in main, only by the
\* assignment that follows the fallback wait (line 162), which main reaches only
\* after it has seen the flag clear at line 159.
FallbackWait == pc = "waitpid" /\ pc' = "return" /\ waits = 1

C13_FlagHandlerOnlyStatusAlsoFallback ==
  [][/\ child_exited' # child_exited
          => (sigchld_handler /\ child_exited = 0 /\ child_exited' = 1)
     /\ child_status' # child_status => (sigchld_handler \/ FallbackWait)
     /\ child_exited # 0 => child_exited' # 0]_vars

C13_Witness ==
  /\ pc = "done" /\ childReapedBy = "wait" /\ child_exited = 0
  /\ child_status = ExitedWith(255) /\ childSt = ExitedWith(255)

\* C14: the fallback wait is issued only for a child the handler has not
\* reaped, so it never waits on an already-reaped process; and once teardown is
\* past the wait the spawned child has been reaped, by the handler or by the
\* wait, and child_status is the status it terminated with.
PastReap == {"return", "done"}

C14_ReapedOnceWithItsStatus ==
  /\ pc = "waitpid" => (child # "reaped" /\ childReapedBy # "handler")
  /\ (pc \in PastReap /\ child # "none")
       => (child = "reaped" /\ childReapedBy \in {"handler", "wait"}
           /\ child_status = childSt)

\* C15, as claimed: an iteration in which poll reported a hangup or an error
\* for stdin or for the master does not return to the loop test: the relay
\* leaves RUNNING in that iteration.
HupOrErr == {"POLLHUP", "POLLERR"}

C15_HupOrErrLeavesRunning ==
  pc = "loop_test" => (revents0 \cap HupOrErr = {} /\ revents1 \cap HupOrErr = {})

\* C15, amended: an iteration in which poll reported a hangup or an error for
\* stdin, or a hangup for the master, does not return to the loop test; an
\* error reported for the master alone does not end the loop, and a loop ended
\* for a hangup has seen one of those three indications.
C15_HupLeavesRunningMasterErrDoesNot ==
  /\ pc = "loop_test" => (revents0 \cap HupOrErr = {} /\ "POLLHUP" \notin revents1)
  /\ loopEnd = "hup" => (revents0 \cap HupOrErr # {} \/ "POLLHUP" \in revents1)

C15_Witness ==
  /\ pc = "drain" /\ loopEnd = "hup"
  /\ revents0 = {} /\ revents1 = {"POLLHUP", "POLLERR"}

\* C16, as claimed: after a read of the master that failed with EIO (no reader)
\* or with another error the relay is no longer RUNNING, and the exit status is
\* the one the child's status gives.
StatusDecidesExit == (pc = "done" /\ child # "none") => exitStatus = ExitCodeOf(child_status)

C16_MasterReadErrorLeavesRunning ==
  /\ rdMaster \in {"EIO", "other"} => pc \notin RunningPcs
  /\ StatusDecidesExit

\* C16, amended: a read of the master that fails with an error other than EAGAIN
\* and EIO ends the loop at once; one that fails with EIO (or EAGAIN) never ends
\* the loop by itself: the relay leaves RUNNING in that iteration exactly when
\* poll reported a hangup or error for stdin or a hangup for the master, and
\* otherwise goes back to the loop test; the exit status is the one the child's
\* status gives.
HupReported == revents0 \cap HupOrErr # {} \/ "POLLHUP" \in revents1

C16_OnlyOtherErrorsEndLoop ==
  /\ rdMaster = "other" => (pc \notin RunningPcs /\ loopEnd = "master_err")
  /\ rdMaster \in {"EIO", "EAGAIN"} =>
       IF HupReported THEN pc \notin RunningPcs /\ loopEnd = "hup"
       ELSE pc = "loop_test" \/ loopEnd = "exited"
  /\ StatusDecidesExit

C16_Witness ==
  /\ pc = "done" /\ rdMaster = "EIO" /\ loopEnd = "hup"
  /\ child_status = ExitedWith(255) /\ exitStatus = 255

\* C17: when poll returns interrupted by a signal while the child is still
\* running (so the signal was not the child's termination), the relay goes back
\* to the loop test with the exited flag still clear and the status word still
\* as it was when the wait began, the master and the console's attributes
\* untouched, and no byte read, forwarded or lost.
C17_InterruptedWaitChangesNothing ==
  [][(PollEINTR /\ child = "running")
       => /\ pc' = "loop_test"
          /\ child_exited' = 0 /\ child_status' = 0
          /\ UNCHANGED <<master, termAttrs, stdinRead, ptyIn, masterRead, stdoutW>>]_vars

\* C18: while the child is running (so no signal so far was its termination),
\* a transfer that a signal interrupted has been completed by a retry: between
\* two transfers every byte read from the master has been written to stdout.
Transfers == {"write_stdout", "drain_write"}

C18_InterruptedTransferRetried ==
  (child = "running" /\ pc \notin Transfers) => stdoutW = masterRead

\* C19: whenever the relay is in the fallback wait and the child is still
\* running, the master is already closed and, when a snapshot was captured, it
\* has been restored once and the console's attributes equal it.
C19_ClosedAndRestoredBeforeWait ==
  (pc = "waitpid" /\ child = "running")
    => /\ master = "closed"
       /\ have_orig => (restores = 1 /\ termAttrs = orig_termios)

C19_Witness ==
  /\ pc = "waitpid" /\ child = "running" /\ ~intr
  /\ master = "closed" /\ have_orig /\ ttySettable
  /\ orig_termios = CookedAttrs /\ termAttrs = CookedAttrs /\ rawSets = 1

\* C20: when the child eventually terminates and every call of main returns,
\* the relay eventually exits, after a successful spawn with the master closed:
\* a drain, once entered, ends (the exit lies after it), also when the drain
\* read output of a child that was still running, and a fallback wait, once
\* entered, returns.
C20_RelayEventuallyExits ==
  <>(pc = "done" /\ (child = "none" \/ master = "closed"))

C20_Witness ==
  /\ pc = "done" /\ loopEnd = "stdin_eof" /\ drainedLive
  /\ master = "closed" /\ childReapedBy = "wait" /\ waits = 1

====
